---- MODULE Spec2Model ----
(***************************************************************************)
(* Model of the Qur'an Planner page component (src/app/page.tsx): the      *)
(* React state of Page, the four persisted localStorage keys, the mount    *)
(* effect that loads them, and the handlers savePlan, resetAll,            *)
(* updateProgress and setRamadanDayPersist, with the derived values        *)
(* totalPages, daysTotalFromPlan, sessionsFromPlan and trackTotals.        *)
(*                                                                         *)
(* JavaScript numbers are modelled by integers plus the value NaN.  The    *)
(* double arithmetic of trackTotals is modelled bit-exactly (section       *)
(* "IEEE-754 doubles").  Stored strings are modelled by the documents      *)
(* they encode: a JSON text by its value, String(n) by the number.         *)
(***************************************************************************)
EXTENDS Integers, Sequences, FiniteSets, TLC

VARIABLES
    goalPreset,      \* useState<GoalPreset>, Custom for "custom"
    customGoal,      \* useState<number>
    daysPreset,      \* useState<DaysPreset>, Custom for "custom"
    customDays,      \* useState<number>
    sessions,        \* useState<SessionsPreset>
    plan,            \* useState<Plan | null>
    trackMode,       \* "onPage" | "readPages"
    inputPage,       \* useState<number>
    inputReadPages,  \* useState<number>
    ramadanDay,      \* useState<number>
    progress,        \* useState<ProgressState>
    history,         \* useState<HistoryItem[]>
    localStorage,    \* the keys plan, progress, history, ramadanDay
    clock,           \* the last value Date.now() returned
    pc,              \* "mount": the load effect has not run yet; "ready"
    lastOp           \* the handler that ran last

vars == <<goalPreset, customGoal, daysPreset, customDays, sessions, plan,
          trackMode, inputPage, inputReadPages, ramadanDay, progress, history,
          localStorage, clock, pc, lastOp>>

(***************************************************************************)
(* Bounds of the model.                                                    *)
(***************************************************************************)
\* updateProgress is modelled for the first MaxNow readings of the clock
MaxNow == 2

(***************************************************************************)
(* Program constants and JavaScript values.                                *)
(***************************************************************************)
QURAN_PAGES == 604
\* [newItem, ...history].slice(0, 10)
HISTORY_KEEP == 10
\* savedHistory.slice(0, 30)
HISTORY_LOAD == 30
\* the number NaN (Number.isNaN(n)); an integer no computation produces
NaN == -999999
\* the preset value "custom"
Custom == 0
\* lastUpdatedAt: null
NoTime == 0

null == [t |-> "null"]

Min2(a, b) == IF a <= b THEN a ELSE b
Max2(a, b) == IF a >= b THEN a ELSE b

clamp(n, min, max) ==
    IF n = NaN THEN min ELSE Min2(max, Max2(min, n))

Take(s, n) == SubSeq(s, 1, Min2(Len(s), n))

(***************************************************************************)
(* Stored documents.  A key holds Absent (getItem gives null) or a text;   *)
(* a text is modelled by what it parses to.  JSON values are tagged:       *)
(* numbers, strings, null, objects (a record of tagged values), arrays.    *)
(***************************************************************************)
Absent == [k |-> "absent"]
\* a text JSON.parse throws on
BadText == [k |-> "text", s |-> "not json"]
Doc(v) == [k |-> "json", v |-> v]
JNum(n) == [t |-> "num", n |-> n]
JStr(s) == [t |-> "str", s |-> s]
JObj(o) == [t |-> "obj", o |-> o]
JArr(a) == [t |-> "arr", a |-> a]
\* the text of String(n) for a number n, and texts that are no number
NumText(n) == [k |-> "numtext", n |-> n]
WordText == [k |-> "text", s |-> "abc"]

\* JSON.stringify of a number: NaN is written as null
JsonNumber(n) == IF n = NaN THEN null ELSE JNum(n)
\* JSON.stringify of number | null
JsonTime(ts) == IF ts = NoTime THEN null ELSE JNum(ts)

safeJsonParse(value) ==
    IF value = Absent THEN null
    ELSE IF value.k = "json" THEN value.v
    ELSE null

\* Number(localStorage.getItem(key)): Number(null) is 0, a text that is no
\* number gives NaN
NumberOfItem(value) ==
    IF value = Absent THEN 0
    ELSE IF value.k = "numtext" THEN value.n
    ELSE NaN

\* obj.f && ... for a field of a parsed value: undefined, null, 0, NaN and ""
\* are falsy
Truthy(v, f) ==
    /\ v.t = "obj"
    /\ f \in DOMAIN v.o
    /\ \/ v.o[f].t = "num" /\ v.o[f].n # 0 /\ v.o[f].n # NaN
       \/ v.o[f].t = "str" /\ v.o[f].s # ""
       \/ v.o[f].t = "obj"
       \/ v.o[f].t = "arr"

\* typeof obj.f === "number"
IsNumberField(v, f) == v.t = "obj" /\ f \in DOMAIN v.o /\ v.o[f].t = "num"

stringifyPlan(p) ==
    Doc(JObj([goalKhatmah |-> JsonNumber(p.goalKhatmah),
              daysTotal |-> JsonNumber(p.daysTotal),
              sessionsPerDay |-> JsonNumber(p.sessionsPerDay)]))

\* a mutation of stringifyProgress: the time of the update is not written
stringifyProgressNoTime(p) ==
    Doc(JObj([pagesCompleted |-> JsonNumber(p.pagesCompleted)]))

stringifyProgress(p) ==
    Doc(JObj([pagesCompleted |-> JsonNumber(p.pagesCompleted),
              lastUpdatedAt |-> JsonTime(p.lastUpdatedAt)]))

stringifyItem(h) ==
    JObj([at |-> JsonNumber(h.at), label |-> JStr(h.label),
          pagesCompleted |-> JsonNumber(h.pagesCompleted)])

stringifyHistory(hs) == Doc(JArr([i \in 1..Len(hs) |-> stringifyItem(hs[i])]))

\* a parsed object seen as a Plan (the fields the samples hold are numbers)
AsPlan(v) ==
    [goalKhatmah |-> v.o.goalKhatmah.n, daysTotal |-> v.o.daysTotal.n,
     sessionsPerDay |-> v.o.sessionsPerDay.n]

\* savedProgress.lastUpdatedAt ?? null
TimeOf(v) ==
    IF "lastUpdatedAt" \in DOMAIN v.o /\ v.o.lastUpdatedAt.t = "num"
    THEN v.o.lastUpdatedAt.n ELSE NoTime

\* a parsed array element seen as a HistoryItem
AsItem(v) == [at |-> v.o.at.n, label |-> v.o.label.s,
              pagesCompleted |-> v.o.pagesCompleted.n]

(***************************************************************************)
(* IEEE-754 doubles.  The values trackTotals divides and multiplies are    *)
(* integers, and their quotients and products are not: a double is         *)
(* modelled as s * m * 2^e with s the sign (0 for zero), e an integer and  *)
(* m a natural number of at most 53 bits, kept as a little-endian          *)
(* sequence of limbs below LimbBase.  Every operation is computed exactly  *)
(* and then rounded to 53 bits, to nearest, ties to even, as the hardware  *)
(* does (the values here are far from the subnormal and overflow ranges).  *)
(***************************************************************************)
LimbBase == 2^10
LimbBits == 2 * 5
MantissaBits == 52 + 1
\* fraction bits a quotient is computed to before it is rounded
GuardBits == 7 * 10

RECURSIVE BigNorm(_)
BigNorm(x) ==
    IF x = <<>> THEN x
    ELSE IF x[Len(x)] = 0 THEN BigNorm(SubSeq(x, 1, Len(x) - 1)) ELSE x

RECURSIVE BigOf(_)
BigOf(n) == IF n = 0 THEN <<>> ELSE <<n % LimbBase>> \o BigOf(n \div LimbBase)

RECURSIVE BigMulCarry(_, _, _)
BigMulCarry(x, n, carry) ==
    IF x = <<>> THEN BigOf(carry)
    ELSE LET v == x[1] * n + carry
         IN  <<v % LimbBase>> \o BigMulCarry(Tail(x), n, v \div LimbBase)

\* x * n for a small n
BigMulSmall(x, n) == BigNorm(BigMulCarry(x, n, 0))

\* x + n for a small n
RECURSIVE BigAddSmall(_, _)
BigAddSmall(x, n) ==
    IF n = 0 THEN x
    ELSE IF x = <<>> THEN BigOf(n)
    ELSE LET v == x[1] + n
         IN  <<v % LimbBase>> \o BigAddSmall(Tail(x), v \div LimbBase)

\* long division by a small b, from the top limb: [q, r]
RECURSIVE BigDivFrom(_, _, _, _)
BigDivFrom(x, b, i, rem) ==
    IF i = 0 THEN [q |-> <<>>, r |-> rem]
    ELSE LET cur == rem * LimbBase + x[i]
             rest == BigDivFrom(x, b, i - 1, cur % b)
         IN  [q |-> rest.q \o <<cur \div b>>, r |-> rest.r]

BigDivSmall(x, b) ==
    LET d == BigDivFrom(x, b, Len(x), 0)
    IN  [q |-> BigNorm(d.q), r |-> d.r]

RECURSIVE IntBitLen(_)
IntBitLen(n) == IF n = 0 THEN 0 ELSE 1 + IntBitLen(n \div 2)

BigBitLen(x) ==
    LET y == BigNorm(x)
    IN  IF y = <<>> THEN 0 ELSE LimbBits * (Len(y) - 1) + IntBitLen(y[Len(y)])

\* x * 2^k
BigShl(x, k) ==
    IF BigNorm(x) = <<>> THEN <<>>
    ELSE [i \in 1..(k \div LimbBits) |-> 0] \o BigMulSmall(BigNorm(x), 2^(k % LimbBits))

\* floor(x / 2^k)
BigShr(x, k) ==
    LET y == BigNorm(x)
        drop == k \div LimbBits
    IN  IF drop >= Len(y) THEN <<>>
        ELSE BigDivSmall(SubSeq(y, drop + 1, Len(y)), 2^(k % LimbBits)).q

\* -1, 0, 1 as x < y, x = y, x > y
RECURSIVE BigCmpFrom(_, _, _)
BigCmpFrom(x, y, i) ==
    IF i = 0 THEN 0
    ELSE IF x[i] < y[i] THEN -1
    ELSE IF x[i] > y[i] THEN 1
    ELSE BigCmpFrom(x, y, i - 1)

BigCmp(x, y) ==
    LET a == BigNorm(x)
        b == BigNorm(y)
    IN  IF Len(a) < Len(b) THEN -1
        ELSE IF Len(a) > Len(b) THEN 1
        ELSE BigCmpFrom(a, b, Len(a))

\* x - y for x >= y
RECURSIVE BigSubBorrow(_, _, _)
BigSubBorrow(x, y, borrow) ==
    IF x = <<>> THEN <<>>
    ELSE LET yl == IF y = <<>> THEN 0 ELSE y[1]
             v == x[1] - yl - borrow
         IN  <<(v + LimbBase) % LimbBase>>
             \o BigSubBorrow(Tail(x), IF y = <<>> THEN y ELSE Tail(y),
                             IF v < 0 THEN 1 ELSE 0)

BigSub(x, y) == BigNorm(BigSubBorrow(BigNorm(x), BigNorm(y), 0))

FZero == [s |-> 0, m |-> <<>>, e |-> 0]

\* sign * n * 2^e (plus a little, when sticky) rounded to a double
FRound(sign, n, e, sticky) ==
    LET len == BigBitLen(n)
    IN  IF len = 0 THEN FZero
        ELSE IF len <= MantissaBits THEN [s |-> sign, m |-> BigNorm(n), e |-> e]
        ELSE LET k == len - MantissaBits
                 y == BigShr(n, k - 1)
                 q == BigShr(y, 1)
                 roundBit == y[1] % 2
                 rest == sticky \/ BigCmp(n, BigShl(y, k - 1)) # 0
                 up == roundBit = 1 /\ (rest \/ q[1] % 2 = 1)
             IN  [s |-> sign, m |-> IF up THEN BigAddSmall(q, 1) ELSE q, e |-> e + k]

\* a / b in doubles, for integers a >= 0 and b > 0
FDivInt(a, b) ==
    IF a = 0 THEN FZero
    ELSE LET d == BigDivSmall(BigShl(BigOf(a), GuardBits), b)
         IN  FRound(1, d.q, -GuardBits, d.r # 0)

\* x * n in doubles, for a double x >= 0 and an integer n >= 0
FMulInt(x, n) ==
    IF x.s = 0 \/ n = 0 THEN FZero
    ELSE FRound(x.s, BigMulSmall(x.m, n), x.e, FALSE)

\* c - x in doubles, for an integer c >= 0 and a double x >= 0
FIntMinus(c, x) ==
    IF x.s = 0 THEN FRound(1, BigOf(c), 0, FALSE)
    ELSE LET e == Min2(x.e, 0)
             xm == BigShl(x.m, x.e - e)
             cm == BigShl(BigOf(c), -e)
             cmp == BigCmp(cm, xm)
         IN  IF cmp = 0 THEN FZero
             ELSE IF cmp > 0 THEN FRound(1, BigSub(cm, xm), e, FALSE)
             ELSE FRound(-1, BigSub(xm, cm), e, FALSE)

\* x >= k for a double x and an integer k
FGeInt(x, k) ==
    LET e == Min2(x.e, 0)
        xm == BigShl(x.m, x.e - e)
        km == BigShl(BigOf(IF k < 0 THEN -k ELSE k), -e)
    IN  IF x.s = 0 THEN 0 >= k
        ELSE IF x.s = 1 THEN k <= 0 \/ BigCmp(xm, km) >= 0
        ELSE k < 0 /\ BigCmp(xm, km) <= 0

(***************************************************************************)
(* Derived values of a render.                                             *)
(***************************************************************************)
effectiveGoal == IF goalPreset = Custom THEN customGoal ELSE goalPreset
effectiveDays == IF daysPreset = Custom THEN customDays ELSE daysPreset

totalPages == QURAN_PAGES * clamp(effectiveGoal, 1, 50)

daysTotalFromPlan ==
    IF plan # null THEN plan.daysTotal ELSE clamp(effectiveDays, 1, 60)

sessionsFromPlan == IF plan # null THEN plan.sessionsPerDay ELSE sessions

\* `Day ${ramadanDay} — Page ${page}` / `Day ${ramadanDay} — ${n} pages read`
LabelOf(day, mode, n) ==
    IF mode = "onPage" THEN [day |-> day, page |-> n]
    ELSE [day |-> day, pagesRead |-> n]

\* a mutation of dTotal: the live day input is used even when a plan is saved
dTotalFromInputs == clamp(effectiveDays, 1, 60)

(***************************************************************************)
(* trackTotals.                                                            *)
(***************************************************************************)
dTotal == clamp(daysTotalFromPlan, 1, 60)
dayNow == clamp(ramadanDay, 1, dTotal)
completed == clamp(progress.pagesCompleted, 0, totalPages)
left == Max2(0, totalPages - completed)

\* a mutation of daysLeft: the current day is not counted among the days left
daysLeftAfterToday == Max2(0, dTotal - dayNow)

daysLeft == Max2(0, dTotal - dayNow + 1)

\* daysLeft > 0 ? left / daysLeft : left, in doubles (left / 1 is left)
neededPerDay ==
    IF daysLeft > 0 THEN FDivInt(left, daysLeft) ELSE FDivInt(left, 1)

\* (totalPages / dTotal) * dayNow, in doubles
idealCompletedByNow == FMulInt(FDivInt(totalPages, dTotal), dayNow)
\* completed - idealCompletedByNow, in doubles
delta == FIntMinus(completed, idealCompletedByNow)

statusOf(d) ==
    IF FGeInt(d, 10) THEN "ontrack"
    ELSE IF FGeInt(d, -10) THEN "slight"
    ELSE "behind"

status == statusOf(delta)

\* the condition the ambiguous-page hint is rendered under, on the Track tab
WarningShown ==
    /\ trackMode = "onPage"
    /\ (IF plan # null THEN plan.goalKhatmah ELSE 1) > 1

(***************************************************************************)
(* Initial state: the useState defaults, before the load effect.           *)
(***************************************************************************)
EmptyStorage ==
    [plan |-> Absent, progress |-> Absent, history |-> Absent, ramadanDay |-> Absent]

DefaultProgress == [pagesCompleted |-> 0, lastUpdatedAt |-> NoTime]

Defaults ==
    /\ goalPreset = 1
    /\ customGoal = 1
    /\ daysPreset = 30
    /\ customDays = 30
    /\ sessions = 2
    /\ plan = null
    /\ trackMode = "onPage"
    /\ inputPage = 1
    /\ inputReadPages = 0
    /\ ramadanDay = 1
    /\ progress = DefaultProgress
    /\ history = <<>>

InitWith(stores) ==
    /\ Defaults
    /\ localStorage \in stores
    /\ clock = 0
    /\ pc = "mount"
    /\ lastOp = "none"

(***************************************************************************)
(* The load effect, run once after the first render.                       *)
(***************************************************************************)
\* savedPlan && savedPlan.goalKhatmah && savedPlan.daysTotal && savedPlan.sessionsPerDay
PlanAccepted(savedPlan) ==
    /\ Truthy(savedPlan, "goalKhatmah")
    /\ Truthy(savedPlan, "daysTotal")
    /\ Truthy(savedPlan, "sessionsPerDay")

\* a mutation of LoadedPlan: the plan is taken without looking at its fields
LoadedPlanUnchecked(value) ==
    LET savedPlan == safeJsonParse(value)
    IN  IF savedPlan.t = "obj"
           /\ "goalKhatmah" \in DOMAIN savedPlan.o
           /\ "daysTotal" \in DOMAIN savedPlan.o
           /\ "sessionsPerDay" \in DOMAIN savedPlan.o
        THEN AsPlan(savedPlan) ELSE null

\* the plan the effect sets from the plan key, null when it sets none
LoadedPlan(value) ==
    LET savedPlan == safeJsonParse(value)
    IN  IF PlanAccepted(savedPlan) THEN AsPlan(savedPlan) ELSE null

\* the progress the effect sets from the progress key, given the current one
LoadedProgress(value, current) ==
    LET savedProgress == safeJsonParse(value)
    IN  IF IsNumberField(savedProgress, "pagesCompleted")
        THEN [pagesCompleted |-> savedProgress.o.pagesCompleted.n,
              lastUpdatedAt |-> TimeOf(savedProgress)]
        ELSE current

\* the history the effect sets from the history key, given the current one
LoadedHistory(value, current) ==
    LET savedHistory == safeJsonParse(value)
    IN  IF savedHistory.t = "arr"
        THEN [i \in 1..Min2(Len(savedHistory.a), HISTORY_LOAD) |-> AsItem(savedHistory.a[i])]
        ELSE current

\* the day the effect sets from the ramadanDay key, given the current one
LoadedDay(value, current) ==
    LET savedRamadanDay == NumberOfItem(value)
    IN  IF savedRamadanDay # NaN /\ savedRamadanDay > 0
        THEN savedRamadanDay ELSE current

\* [1, 2, 3].includes(savedPlan.goalKhatmah)
GoalButtons == {1, 2, 3}
\* savedPlan.daysTotal === 29 || savedPlan.daysTotal === 30
DaysButtons == {29, 30}

Load ==
    /\ pc = "mount"
    /\ LET p == LoadedPlan(localStorage.plan)
       IN  /\ plan' = IF p # null THEN p ELSE plan
           /\ goalPreset' =
                IF p = null THEN goalPreset
                ELSE IF p.goalKhatmah \in GoalButtons THEN p.goalKhatmah ELSE Custom
           /\ customGoal' =
                IF p # null /\ p.goalKhatmah \notin GoalButtons
                THEN p.goalKhatmah ELSE customGoal
           /\ daysPreset' =
                IF p = null THEN daysPreset
                ELSE IF p.daysTotal \in DaysButtons THEN p.daysTotal ELSE Custom
           /\ customDays' =
                IF p # null /\ p.daysTotal \notin DaysButtons
                THEN p.daysTotal ELSE customDays
           /\ sessions' = IF p # null THEN p.sessionsPerDay ELSE sessions
    /\ progress' = LoadedProgress(localStorage.progress, progress)
    /\ history' = LoadedHistory(localStorage.history, history)
    /\ ramadanDay' = LoadedDay(localStorage.ramadanDay, ramadanDay)
    /\ pc' = "ready"
    /\ lastOp' = "load"
    /\ UNCHANGED <<trackMode, inputPage, inputReadPages, localStorage, clock>>

\* the page is opened again: a new Page with the useState defaults, over the
\* storage as it is
Reload ==
    /\ pc = "ready"
    /\ goalPreset' = 1
    /\ customGoal' = 1
    /\ daysPreset' = 30
    /\ customDays' = 30
    /\ sessions' = 2
    /\ plan' = null
    /\ trackMode' = "onPage"
    /\ inputPage' = 1
    /\ inputReadPages' = 0
    /\ ramadanDay' = 1
    /\ progress' = DefaultProgress
    /\ history' = <<>>
    /\ pc' = "mount"
    /\ lastOp' = "reload"
    /\ UNCHANGED <<localStorage, clock>>

(***************************************************************************)
(* Edits of the inputs (the onClick / onChange state setters).             *)
(***************************************************************************)
setGoalPreset(S) ==
    /\ pc = "ready"
    /\ \E v \in S : goalPreset' = v
    /\ lastOp' = "edit"
    /\ UNCHANGED <<customGoal, daysPreset, customDays, sessions, plan, trackMode,
                   inputPage, inputReadPages, ramadanDay, progress, history,
                   localStorage, clock, pc>>

setCustomGoal(S) ==
    /\ pc = "ready"
    /\ \E v \in S : customGoal' = v
    /\ lastOp' = "edit"
    /\ UNCHANGED <<goalPreset, daysPreset, customDays, sessions, plan, trackMode,
                   inputPage, inputReadPages, ramadanDay, progress, history,
                   localStorage, clock, pc>>

setDaysPreset(S) ==
    /\ pc = "ready"
    /\ \E v \in S : daysPreset' = v
    /\ lastOp' = "edit"
    /\ UNCHANGED <<goalPreset, customGoal, customDays, sessions, plan, trackMode,
                   inputPage, inputReadPages, ramadanDay, progress, history,
                   localStorage, clock, pc>>

setCustomDays(S) ==
    /\ pc = "ready"
    /\ \E v \in S : customDays' = v
    /\ lastOp' = "edit"
    /\ UNCHANGED <<goalPreset, customGoal, daysPreset, sessions, plan, trackMode,
                   inputPage, inputReadPages, ramadanDay, progress, history,
                   localStorage, clock, pc>>

setSessions(S) ==
    /\ pc = "ready"
    /\ \E v \in S : sessions' = v
    /\ lastOp' = "edit"
    /\ UNCHANGED <<goalPreset, customGoal, daysPreset, customDays, plan, trackMode,
                   inputPage, inputReadPages, ramadanDay, progress, history,
                   localStorage, clock, pc>>

TrackModes == {"onPage", "readPages"}

setTrackMode ==
    /\ pc = "ready"
    /\ \E v \in TrackModes : trackMode' = v
    /\ lastOp' = "edit"
    /\ UNCHANGED <<goalPreset, customGoal, daysPreset, customDays, sessions, plan,
                   inputPage, inputReadPages, ramadanDay, progress, history,
                   localStorage, clock, pc>>

setInputPage(S) ==
    /\ pc = "ready"
    /\ \E v \in S : inputPage' = v
    /\ lastOp' = "edit"
    /\ UNCHANGED <<goalPreset, customGoal, daysPreset, customDays, sessions, plan,
                   trackMode, inputReadPages, ramadanDay, progress, history,
                   localStorage, clock, pc>>

setInputReadPages(S) ==
    /\ pc = "ready"
    /\ \E v \in S : inputReadPages' = v
    /\ lastOp' = "edit"
    /\ UNCHANGED <<goalPreset, customGoal, daysPreset, customDays, sessions, plan,
                   trackMode, inputPage, ramadanDay, progress, history,
                   localStorage, clock, pc>>

(***************************************************************************)
(* The handlers.                                                           *)
(***************************************************************************)
NewPlan ==
    [goalKhatmah |-> clamp(effectiveGoal, 1, 50),
     daysTotal |-> clamp(effectiveDays, 1, 60),
     sessionsPerDay |-> sessions]

savePlan ==
    /\ pc = "ready"
    /\ plan' = NewPlan
    /\ localStorage' = [localStorage EXCEPT !.plan = stringifyPlan(NewPlan)]
    /\ lastOp' = "savePlan"
    /\ UNCHANGED <<goalPreset, customGoal, daysPreset, customDays, sessions,
                   trackMode, inputPage, inputReadPages, ramadanDay, progress,
                   history, clock, pc>>

\* a mutation of ResetStorage: the history key is left behind
ResetStorageKeepsHistory ==
    [localStorage EXCEPT !.plan = Absent, !.progress = Absent, !.ramadanDay = Absent]

\* the four removeItem calls
ResetStorage ==
    [localStorage EXCEPT !.plan = Absent, !.progress = Absent,
                         !.history = Absent, !.ramadanDay = Absent]

resetAll ==
    /\ pc = "ready"
    /\ goalPreset' = 1
    /\ customGoal' = 1
    /\ daysPreset' = 30
    /\ customDays' = 30
    /\ sessions' = 2
    /\ plan' = null
    /\ trackMode' = "onPage"
    /\ inputPage' = 1
    /\ inputReadPages' = 0
    /\ ramadanDay' = 1
    /\ progress' = DefaultProgress
    /\ history' = <<>>
    /\ localStorage' = ResetStorage
    /\ lastOp' = "resetAll"
    /\ UNCHANGED <<clock, pc>>

\* the goal updateProgress works with
UpdateGoal == IF plan # null THEN plan.goalKhatmah ELSE clamp(effectiveGoal, 1, 50)

\* a mutation of onPageCompleted: the page number itself is recorded
onPageCompletedNoOffset(rawPage, goal, total) ==
    LET page == clamp(rawPage, 1, QURAN_PAGES)
    IN  IF goal = 1 THEN page ELSE clamp(page, 0, total)

\* the onPage branch of updateProgress
onPageCompleted(rawPage, goal, total) ==
    LET page == clamp(rawPage, 1, QURAN_PAGES)
    IN  IF goal = 1 THEN page - 1 ELSE clamp(page - 1, 0, total)

\* the pagesCompleted updateProgress computes
UpdatedPages ==
    IF trackMode = "onPage"
    THEN onPageCompleted(inputPage, UpdateGoal, totalPages)
    ELSE clamp(inputReadPages, 0, totalPages)

\* [newItem, ...history].slice(0, 10)
NextHistory(newItem) == Take(<<newItem>> \o history, HISTORY_KEEP)

updateProgress ==
    /\ pc = "ready"
    /\ clock < MaxNow
    /\ LET now == clock + 1
           pagesCompleted == UpdatedPages
           newProgress == [pagesCompleted |-> pagesCompleted, lastUpdatedAt |-> now]
           label == LabelOf(ramadanDay, trackMode,
                            IF trackMode = "onPage"
                            THEN clamp(inputPage, 1, QURAN_PAGES)
                            ELSE pagesCompleted)
           newItem == [at |-> now, label |-> label, pagesCompleted |-> pagesCompleted]
           nextHistory == NextHistory(newItem)
       IN  /\ clock' = now
           /\ progress' = newProgress
           /\ history' = nextHistory
           /\ localStorage' = [localStorage EXCEPT
                                 !.progress = stringifyProgress(newProgress),
                                 !.history = stringifyHistory(nextHistory)]
    /\ lastOp' = "updateProgress"
    /\ UNCHANGED <<goalPreset, customGoal, daysPreset, customDays, sessions, plan,
                   trackMode, inputPage, inputReadPages, ramadanDay, pc>>

setRamadanDayPersist(S) ==
    /\ pc = "ready"
    /\ \E n \in S :
         LET v == clamp(n, 1, daysTotalFromPlan)
         IN  /\ ramadanDay' = v
             /\ localStorage' = [localStorage EXCEPT !.ramadanDay = NumText(v)]
    /\ lastOp' = "setRamadanDay"
    /\ UNCHANGED <<goalPreset, customGoal, daysPreset, customDays, sessions, plan,
                   trackMode, inputPage, inputReadPages, progress, history, clock, pc>>

(***************************************************************************)
(* Spec: the goal, the track inputs and the progress, from empty storage.  *)
(***************************************************************************)
\* the inputs tried (sets are written in increasing order)
NoStorage == {EmptyStorage}
GoalPresetsTried == {Custom, 1, 2}
CustomGoalsTried == {51}
PagesTried == {NaN, 100}
ReadPagesTried == {1000}
DaysTried == {NaN, 2}

Init == InitWith(NoStorage)

Next ==
    \/ Load
    \/ setGoalPreset(GoalPresetsTried)
    \/ setCustomGoal(CustomGoalsTried)
    \/ setTrackMode
    \/ setInputPage(PagesTried)
    \/ setInputReadPages(ReadPagesTried)
    \/ savePlan
    \/ resetAll
    \/ updateProgress
    \/ setRamadanDayPersist(DaysTried)

Spec == Init /\ [][Next]_vars

(***************************************************************************)
(* SpecDays: the day inputs, the sessions, the day cursor and the status,  *)
(* over storage that holds no plan or a plan of 100 days.                  *)
(***************************************************************************)
LongPlanDoc ==
    Doc(JObj([goalKhatmah |-> JNum(1), daysTotal |-> JNum(100),
              sessionsPerDay |-> JNum(3)]))

DaysStorage == {EmptyStorage, [EmptyStorage EXCEPT !.plan = LongPlanDoc]}
DaysPresetsTriedDays == {Custom, 29, 30}
CustomDaysTriedDays == {28}
SessionsTriedDays == {5}
PagesTriedDays == {464}
DaysTriedDays == {21, 30}

InitDays == InitWith(DaysStorage)

NextDays ==
    \/ Load
    \/ setDaysPreset(DaysPresetsTriedDays)
    \/ setCustomDays(CustomDaysTriedDays)
    \/ setSessions(SessionsTriedDays)
    \/ setInputPage(PagesTriedDays)
    \/ savePlan
    \/ resetAll
    \/ updateProgress
    \/ setRamadanDayPersist(DaysTriedDays)

SpecDays == InitDays /\ [][NextDays]_vars

(***************************************************************************)
(* SpecLoad: the load effect over storage the page did not write itself,   *)
(* each key drawn on its own, followed by the handlers.                    *)
(***************************************************************************)
PlanDoc(g, d, n) ==
    Doc(JObj([goalKhatmah |-> JNum(g), daysTotal |-> JNum(d),
              sessionsPerDay |-> JNum(n)]))

\* plan values that are missing or malformed
BadPlanDocs ==
    {Absent, BadText, Doc(null), Doc(JNum(5)),
     Doc(JObj([goalKhatmah |-> JNum(2)])),
     Doc(JObj([goalKhatmah |-> JNum(2), daysTotal |-> JNum(0),
               sessionsPerDay |-> JNum(2)]))}
\* well-formed plans, the last one outside the ranges savePlan writes
GoodPlanDocs == {PlanDoc(2, 29, 5), PlanDoc(5, 20, 1), PlanDoc(1, 100, 3)}

\* progress values that are missing or malformed
BadProgressDocs ==
    {Absent, BadText, Doc(JNum(7)),
     Doc(JObj([pagesCompleted |-> JStr("12")])),
     Doc(JObj([lastUpdatedAt |-> JNum(9)]))}
\* well-formed progress, the last one outside every plan's total
GoodProgressDocs ==
    {Doc(JObj([pagesCompleted |-> JNum(50), lastUpdatedAt |-> JNum(9)])),
     Doc(JObj([pagesCompleted |-> JNum(70)])),
     Doc(JObj([pagesCompleted |-> JNum(50000), lastUpdatedAt |-> JNum(9)]))}

OldItem(i) ==
    JObj([at |-> JNum(-i), label |-> JStr([day |-> 1, page |-> i]),
          pagesCompleted |-> JNum(i - 1)])
ListDoc(n) == Doc(JArr([i \in 1..n |-> OldItem(i)]))

\* history values that are missing or no list
BadHistoryDocs == {Absent, BadText, Doc(JObj([at |-> JNum(1)]))}
GoodHistoryDocs == {ListDoc(2), ListDoc(HISTORY_KEEP + 1), ListDoc(HISTORY_LOAD + 1)}

\* day values that are missing, no number or not positive
BadDayDocs == {Absent, WordText, NumText(-3), NumText(0)}
GoodDayDocs == {NumText(7), NumText(45)}

ForeignStorage ==
    [plan : BadPlanDocs \cup GoodPlanDocs,
     progress : BadProgressDocs \cup GoodProgressDocs,
     history : BadHistoryDocs \cup GoodHistoryDocs,
     ramadanDay : BadDayDocs \cup GoodDayDocs]

DaysTriedLoad == {2}

InitLoad == InitWith(ForeignStorage)

NextLoad ==
    \/ Load
    \/ Reload
    \/ savePlan
    \/ resetAll
    \/ updateProgress
    \/ setRamadanDayPersist(DaysTriedLoad)

SpecLoad == InitLoad /\ [][NextLoad]_vars

(***************************************************************************)
(* SpecPace: the goal, the day total, the day cursor and the progress,     *)
(* from empty storage, over a plan of 3 khatmahs in 49 days.               *)
(***************************************************************************)
GoalPresetsTriedPace == {1, 3}
DaysPresetsTriedPace == {Custom, 30}
CustomDaysTriedPace == {49}
ReadPagesTriedPace == {2000}
DaysTriedPace == {49}

InitPace == InitWith(NoStorage)

NextPace ==
    \/ Load
    \/ setGoalPreset(GoalPresetsTriedPace)
    \/ setDaysPreset(DaysPresetsTriedPace)
    \/ setCustomDays(CustomDaysTriedPace)
    \/ setTrackMode
    \/ setInputReadPages(ReadPagesTriedPace)
    \/ savePlan
    \/ resetAll
    \/ updateProgress
    \/ setRamadanDayPersist(DaysTriedPace)

SpecPace == InitPace /\ [][NextPace]_vars

(***************************************************************************)
(* The properties.                                                         *)
(***************************************************************************)
\* 604 * the goal of the active plan: the saved plan's goal, else the clamped
\* live goal input
ActiveTotalPages == QURAN_PAGES * UpdateGoal

\* C1: the stored progress.pagesCompleted lies in [0, totalPages(activePlan)]
\* in every reachable state.
C1_PagesWithinActiveTotal ==
    /\ progress.pagesCompleted >= 0
    /\ progress.pagesCompleted <= ActiveTotalPages

\* C2: the stored day cursor ramadanDay lies in [1, activePlan.daysTotal] in
\* every reachable state.
C2_DayWithinActivePlan ==
    /\ ramadanDay >= 1
    /\ ramadanDay <= daysTotalFromPlan

\* C3: once the page is loaded the history never holds more than 10 entries,
\* in memory and as written, and the entry of the most recent updateProgress
\* is at index 0.
C3_HistoryAtMostTen ==
    pc = "ready" =>
        /\ Len(history) <= 10
        /\ lastOp = "updateProgress" =>
             /\ history[1].at = clock
             /\ history[1].pagesCompleted = progress.pagesCompleted
             /\ Len(localStorage.history.v.a) <= 10

\* C4: after resetAll the four persisted keys are absent and the in-memory
\* state equals the defaults.
C4_ResetRestoresDefaults ==
    lastOp = "resetAll" => Defaults /\ localStorage = EmptyStorage

\* C4 witness: a resetAll that came after every update the bound allows.
C4_Witness == lastOp = "resetAll" /\ clock = MaxNow

\* C5: whenever the track mode is onPage and the goal updateProgress uses is
\* greater than 1, the ambiguous-page warning is shown, with and without a
\* saved plan.
C5_WarningWhenAmbiguous ==
    (trackMode = "onPage" /\ UpdateGoal > 1) => WarningShown

\* C6: with delta = completed - (totalPages / dTotal) * dayNow, the status is
\* on-track iff delta >= 10, slightly-behind iff -10 <= delta < 10 and behind
\* iff delta < -10 (delta * dTotal is compared, which is an integer).
C6_StatusByDelta ==
    LET scaled == completed * dTotal - totalPages * dayNow
    IN  /\ status = "ontrack" <=> scaled >= 10 * dTotal
        /\ status = "slight" <=> (scaled >= -10 * dTotal /\ scaled < 10 * dTotal)
        /\ status = "behind" <=> scaled < -10 * dTotal

\* C7: in onPage mode updateProgress sets pagesCompleted to
\* clamp(page, 1, 604) - 1, a value in [0, 603], for every goal.
C7_OnPageCompleted ==
    (lastOp = "updateProgress" /\ trackMode = "onPage") =>
        /\ progress.pagesCompleted = clamp(inputPage, 1, 604) - 1
        /\ progress.pagesCompleted >= 0
        /\ progress.pagesCompleted <= 603

\* C7 witness: page 100 recorded as 99 under a goal greater than 1.
C7_Witness ==
    /\ lastOp = "updateProgress"
    /\ trackMode = "onPage"
    /\ UpdateGoal > 1
    /\ inputPage = 100
    /\ progress.pagesCompleted = 99

C9_StorageMirrorsMemory ==
    pc = "ready" =>
        /\ LoadedPlan(localStorage.plan) = plan
        /\ localStorage.plan = Absent <=> plan = null
        /\ LoadedProgress(localStorage.progress, DefaultProgress) = progress
        /\ LoadedHistory(localStorage.history, <<>>) = history
        /\ LoadedDay(localStorage.ramadanDay, 1) = ramadanDay
        /\ lastOp = "updateProgress" => progress.lastUpdatedAt = clock

\* C9 witness: every key has been written and an update ran last.
C9_Witness ==
    /\ lastOp = "updateProgress"
    /\ plan # null
    /\ ramadanDay = 2
    /\ localStorage.ramadanDay # Absent
    /\ Len(history) = MaxNow

C11_PaceTimesDaysIsLeftAsStated ==
    /\ daysLeft >= 1
    /\ daysLeft = dTotal - dayNow + 1
    /\ left = totalPages - completed
    /\ FIntMinus(left, FMulInt(neededPerDay, daysLeft)) = FZero

\* |x * b - a| <= a * 2^-53 for a double x >= 0 and integers a >= 0, b > 0,
\* computed exactly: x is a / b to within the rounding of one division
WithinRounding(x, a, b) ==
    LET e == Min2(x.e, 0)
        xb == BigShl(BigMulSmall(x.m, b), x.e - e)
        am == BigShl(BigOf(a), -e)
        diff == IF BigCmp(xb, am) >= 0 THEN BigSub(xb, am) ELSE BigSub(am, xb)
    IN  BigCmp(BigShl(diff, MantissaBits), am) <= 0

\* C11 amended: in every reachable state daysLeft >= 1, with
\* daysLeft = dTotal - dayNow + 1, so neededPerDay is the quotient
\* left / daysLeft as a double, left = totalPages - completed, and
\* neededPerDay * daysLeft equals left to within the rounding of the division
\* (a relative error of at most 2^-53), exactly when left is 0.
C11_PaceTimesDaysIsLeft ==
    /\ daysLeft >= 1
    /\ daysLeft = dTotal - dayNow + 1
    /\ left = totalPages - completed
    /\ neededPerDay = FDivInt(left, daysLeft)
    /\ WithinRounding(neededPerDay, left, daysLeft)
    /\ left = 0 => neededPerDay = FZero

\* C11 witness: the last day of a saved plan of 49 days with pages left, where
\* one day is left and the pace is all that is left.
C11_Witness ==
    /\ plan # null
    /\ dTotal = 49
    /\ dayNow = 49
    /\ daysLeft = 1
    /\ left = 1812
    /\ lastOp = "setRamadanDay"

\* C12: whenever dayNow = dTotal the status is never on-track, for any
\* recorded progress, completed = totalPages included: the ideal-by-now
\* equals totalPages, so delta <= 0 and the status is slightly-behind or
\* behind.
C12_LastDayNeverOnTrack ==
    dayNow = dTotal =>
        /\ status # "ontrack"
        /\ FIntMinus(totalPages, idealCompletedByNow) = FZero
        /\ delta.s <= 0
        /\ (status = "slight" \/ status = "behind")

====
